---- MODULE Spec2Model ----
(***************************************************************************)
(* Model of main.py, the Reddit post logger: the label generator next_id   *)
(* and the load / append / save protocol around reddit_output.ods.         *)
(*                                                                         *)
(* Every text (cell contents, labels, post fields) is a sequence of        *)
(* one-character strings, so that slicing, int() and the :03d format are   *)
(* modelled character by character.  Python's None is the value None.      *)
(***************************************************************************)
EXTENDS Integers, Sequences, FiniteSets, TLC

VARIABLES
    CONFIG_FILE,   \* TRUE iff reddit_config.json exists
    ODS_FILE,      \* <<>> when reddit_output.ods is absent, else <<table>>
    pc,            \* per process: position in the script
    table,         \* per process: rows of the in-memory document's table
    last_id,       \* per process: the variable last_id
    seen_posts,    \* per process: the set seen_posts
    post,          \* per process: the loop variable post
    delivered,     \* per process: posts the stream has yielded in this run
    start_rows,    \* per process: number of rows of table when the loop began
    last,          \* argument of a direct call of next_id
    ret,           \* what that call returned, or Raised
    issued         \* labels produced so far by a chain of next_id calls

vars == << CONFIG_FILE, ODS_FILE, pc, table, last_id, seen_posts, post,
           delivered, start_rows, last, ret, issued >>

---------------------------------------------------------------------------
(* Bounds *)

MaxEvents == 4      \* posts the stream yields in one run
MaxRows == 4        \* rows of a table, header included
MaxConcurrentEvents == 1   \* the same, when two processes run
MaxConcurrentRows == 3     \* the same, when two processes run
MaxPrefixLen == 2   \* letters of a label drawn as a direct input of next_id
MaxChain == 1001    \* length of a chain of next_id calls starting from None

---------------------------------------------------------------------------
(* Characters: the ASCII codes 43 (plus sign) to 123 (left brace); code 96 *)
(* is written grave.                                                      *)

Ascii ==
    << "+", ",", "-", ".", "/",
       "0", "1", "2", "3", "4", "5", "6", "7", "8", "9",
       ":", ";", "<", "=", ">", "?", "@",
       "A", "B", "C", "D", "E", "F", "G", "H", "I", "J", "K", "L", "M",
       "N", "O", "P", "Q", "R", "S", "T", "U", "V", "W", "X", "Y", "Z",
       "[", "\\", "]", "^", "_", "grave",
       "a", "b", "c", "d", "e", "f", "g", "h", "i", "j", "k", "l", "m",
       "n", "o", "p", "q", "r", "s", "t", "u", "v", "w", "x", "y", "z",
       "{" >>

AsciiBase == 42

ord(c) == AsciiBase + (CHOOSE i \in 1..Len(Ascii) : Ascii[i] = c)

chr(n) == Ascii[n - AsciiBase]

None == << "None" >>

Raised == << "Raised" >>

IsDigit(c) == ord(c) \in 48..57

---------------------------------------------------------------------------
(* int(): an optional sign, then decimal digits, single underscores        *)
(* allowed between digits.  Surrounding whitespace, which int() also       *)
(* accepts, is outside the modelled character set.                         *)

StripSign(s) == IF Len(s) > 0 /\ s[1] \in {"+", "-"} THEN Tail(s) ELSE s

IsIntBody(b) ==
    /\ Len(b) > 0
    /\ IsDigit(b[1])
    /\ IsDigit(b[Len(b)])
    /\ \A i \in 1..Len(b) :
          \/ IsDigit(b[i])
          \/ /\ b[i] = "_"
             /\ i > 1
             /\ i < Len(b)
             /\ IsDigit(b[i-1])
             /\ IsDigit(b[i+1])

int_raises(s) == ~IsIntBody(StripSign(s))

RECURSIVE DigitsValue(_)
DigitsValue(b) ==
    IF b = <<>> THEN 0
    ELSE LET front == SubSeq(b, 1, Len(b) - 1)
             c == b[Len(b)]
         IN IF c = "_" THEN DigitsValue(front)
            ELSE DigitsValue(front) * 10 + (ord(c) - 48)

int(s) ==
    IF s[1] = "-" THEN 0 - DigitsValue(Tail(s)) ELSE DigitsValue(StripSign(s))

---------------------------------------------------------------------------
(* f"{number:03d}" *)

RECURSIVE DecDigits(_)
DecDigits(n) ==
    IF n < 10 THEN << chr(48 + n) >>
    ELSE DecDigits(n \div 10) \o << chr(48 + (n % 10)) >>

RECURSIVE ZeroPad(_, _)
ZeroPad(s, w) == IF Len(s) >= w THEN s ELSE ZeroPad(<< "0" >> \o s, w)

format_03d_unpadded(number) ==
    IF number < 0 THEN << "-" >> \o DecDigits(0 - number)
    ELSE DecDigits(number)

format_03d(number) ==
    IF number < 0 THEN << "-" >> \o ZeroPad(DecDigits(0 - number), 2)
    ELSE ZeroPad(DecDigits(number), 3)

---------------------------------------------------------------------------
(* next_id *)

\* last[:-3]
slice_prefix(s) == IF Len(s) > 3 THEN SubSeq(s, 1, Len(s) - 3) ELSE <<>>

\* last[-3:]
slice_number(s) == IF Len(s) > 3 THEN SubSeq(s, Len(s) - 2, Len(s)) ELSE s

\* "if not last": None and the empty string are both falsy
not_last(l) == l = None \/ l = <<>>

\* number of times the body of that while loop runs
RECURSIVE carry_loop_steps(_, _)
carry_loop_steps(prefix_list, i) ==
    IF i < 1 THEN 0
    ELSE IF prefix_list[i] # "Z" THEN 1
         ELSE 1 + carry_loop_steps([prefix_list EXCEPT ![i] = "A"], i - 1)

RECURSIVE increment_prefix_past_Z(_, _)
increment_prefix_past_Z(prefix_list, i) ==
    IF i < 1 THEN << "A" >> \o prefix_list
    ELSE [prefix_list EXCEPT ![i] = chr(ord(prefix_list[i]) + 1)]

\* the while ... else loop over prefix_list, entered with i = len - 1
\* (here i counts from 1, so the loop runs while i >= 1)
RECURSIVE increment_prefix_no_carry(_, _)
increment_prefix_no_carry(prefix_list, i) ==
    IF i < 1 THEN << "A" >> \o prefix_list
    ELSE IF prefix_list[i] # "Z"
         THEN [prefix_list EXCEPT ![i] = chr(ord(prefix_list[i]) + 1)]
         ELSE [prefix_list EXCEPT ![i] = "A"]

RECURSIVE increment_prefix(_, _)
increment_prefix(prefix_list, i) ==
    IF i < 1 THEN << "A" >> \o prefix_list
    ELSE IF prefix_list[i] # "Z"
         THEN [prefix_list EXCEPT ![i] = chr(ord(prefix_list[i]) + 1)]
         ELSE increment_prefix([prefix_list EXCEPT ![i] = "A"], i - 1)

\* next_id raises ValueError when int(last[-3:]) does
next_id_raises(l) == ~not_last(l) /\ int_raises(slice_number(l))

next_id_starts_at_001(l) ==
    IF not_last(l) THEN << "0", "0", "1" >>
    ELSE LET prefix == slice_prefix(l)
             number == int(slice_number(l)) + 1
         IN IF number > 999
            THEN (IF prefix = <<>> THEN << "A" >>
                  ELSE increment_prefix(prefix, Len(prefix)))
                 \o format_03d(1)
            ELSE prefix \o format_03d(number)

next_id_keeps_prefix(l) ==
    IF not_last(l) THEN << "A", "0", "0", "1" >>
    ELSE LET prefix == slice_prefix(l)
             number == int(slice_number(l)) + 1
         IN IF number > 999
            THEN prefix \o format_03d(1)
            ELSE prefix \o format_03d(number)

next_id(l) ==
    IF not_last(l) THEN << "A", "0", "0", "1" >>
    ELSE LET prefix == slice_prefix(l)
             number == int(slice_number(l)) + 1
         IN IF number > 999
            THEN (IF prefix = <<>> THEN << "A" >>
                  ELSE increment_prefix(prefix, Len(prefix)))
                 \o format_03d(1)
            ELSE prefix \o format_03d(number)

---------------------------------------------------------------------------
(* The document: a table is a sequence of rows, a row a sequence of cells, *)
(* a cell a sequence of paragraphs, a paragraph its text (<<>> when the    *)
(* paragraph has no text node).                                            *)

Procs == {1, 2}

\* the row built from ["ID", "Subreddit", "Title", "URL"]
HeaderRow ==
    << << << "I", "D" >> >>,
       << << "S", "u", "b", "r", "e", "d", "d", "i", "t" >> >>,
       << << "T", "i", "t", "l", "e" >> >>,
       << << "U", "R", "L" >> >> >>

\* f"https://redd.it/{post.id}"
permalink(id) ==
    << "h", "t", "t", "p", "s", ":", "/", "/",
       "r", "e", "d", "d", ".", "i", "t", "/" >> \o id

\* the posts the stream can yield
Posts ==
    { [id |-> << "k", "1" >>, subreddit |-> << "a" >>, title |-> << "T", "1" >>],
      [id |-> << "k", "2" >>, subreddit |-> << "b" >>, title |-> << "T", "2" >>],
      [id |-> << "k", "3" >>, subreddit |-> << "c" >>, title |-> << "T", "3" >>] }

NoPost == [id |-> <<>>, subreddit |-> <<>>, title |-> <<>>]

new_row_swapped(id_text, e) ==
    << << id_text >>, << e.title >>, << e.subreddit >>, << permalink(e.id) >> >>

\* the row of four cells built for a post
new_row(id_text, e) ==
    << << id_text >>, << e.subreddit >>, << e.title >>, << permalink(e.id) >> >>

read_second_row_id(tbl) ==
    IF \/ Len(tbl) < 2
       \/ Len(tbl[2]) = 0
       \/ Len(tbl[2][1]) = 0
       \/ tbl[2][1][1] = <<>>
    THEN None
    ELSE tbl[2][1][1]

read_last_id_default_000(tbl) ==
    IF \/ Len(tbl) = 0
       \/ Len(tbl[Len(tbl)]) = 0
       \/ Len(tbl[Len(tbl)][1]) = 0
       \/ tbl[Len(tbl)][1][1] = <<>>
    THEN << "0", "0", "0" >>
    ELSE tbl[Len(tbl)][1][1]

\* the try block: text of the first paragraph of the first cell of the
\* last row; any IndexError / AttributeError gives None
read_last_id(tbl) ==
    IF \/ Len(tbl) = 0
       \/ Len(tbl[Len(tbl)]) = 0
       \/ Len(tbl[Len(tbl)][1]) = 0
       \/ tbl[Len(tbl)][1][1] = <<>>
    THEN None
    ELSE tbl[Len(tbl)][1][1]

---------------------------------------------------------------------------
(* The script, one action per step.  pc values: config, open, init_id,     *)
(* wait, check, build, save, advance while running; exited, value_error,  *)
(* save_failed, stopped once the process has ended; absent for a process  *)
(* that is never started.                                                  *)

Running == {"config", "open", "init_id", "wait", "check", "build", "save", "advance"}

Ended == {"exited", "value_error", "save_failed", "stopped"}

CheckConfig_no_exit(p) ==
    /\ pc[p] = "config"
    /\ pc' = [pc EXCEPT ![p] = "open"]
    /\ UNCHANGED << CONFIG_FILE, ODS_FILE, table, last_id, seen_posts, post,
                    delivered, start_rows, last, ret, issued >>

\* if not os.path.exists(CONFIG_FILE): exit(); else load it, build reddit
CheckConfig(p) ==
    /\ pc[p] = "config"
    /\ pc' = [pc EXCEPT ![p] = IF CONFIG_FILE THEN "open" ELSE "exited"]
    /\ UNCHANGED << CONFIG_FILE, ODS_FILE, table, last_id, seen_posts, post,
                    delivered, start_rows, last, ret, issued >>

OpenDocument_saves_new(p) ==
    /\ pc[p] = "open"
    /\ IF ODS_FILE # <<>>
       THEN /\ table' = [table EXCEPT ![p] = ODS_FILE[1]]
            /\ last_id' = [last_id EXCEPT ![p] = read_last_id(ODS_FILE[1])]
            /\ UNCHANGED ODS_FILE
       ELSE /\ table' = [table EXCEPT ![p] = << HeaderRow >>]
            /\ last_id' = [last_id EXCEPT ![p] = None]
            /\ ODS_FILE' = << << HeaderRow >> >>
    /\ pc' = [pc EXCEPT ![p] = "init_id"]
    /\ UNCHANGED << CONFIG_FILE, seen_posts, post, delivered,
                    start_rows, last, ret, issued >>

\* load the document and read the last id, or create one with the header
OpenDocument(p) ==
    /\ pc[p] = "open"
    /\ IF ODS_FILE # <<>>
       THEN /\ table' = [table EXCEPT ![p] = ODS_FILE[1]]
            /\ last_id' = [last_id EXCEPT ![p] = read_last_id(ODS_FILE[1])]
       ELSE /\ table' = [table EXCEPT ![p] = << HeaderRow >>]
            /\ last_id' = [last_id EXCEPT ![p] = None]
    /\ pc' = [pc EXCEPT ![p] = "init_id"]
    /\ UNCHANGED << CONFIG_FILE, ODS_FILE, seen_posts, post, delivered,
                    start_rows, last, ret, issued >>

InitLastId_rebuilds_seen(p) ==
    /\ pc[p] = "init_id"
    /\ IF next_id_raises(last_id[p])
       THEN /\ pc' = [pc EXCEPT ![p] = "value_error"]
            /\ UNCHANGED << last_id, seen_posts, start_rows >>
       ELSE /\ pc' = [pc EXCEPT ![p] = "wait"]
            /\ last_id' = [last_id EXCEPT ![p] = next_id(last_id[p])]
            /\ seen_posts' = [seen_posts EXCEPT ![p] =
                  { SubSeq(table[p][i][4][1], 17, Len(table[p][i][4][1])) :
                        i \in 2..Len(table[p]) }]
            /\ start_rows' = [start_rows EXCEPT ![p] = Len(table[p])]
    /\ UNCHANGED << CONFIG_FILE, ODS_FILE, table, post, delivered, last, ret,
                    issued >>

\* last_id = next_id(last_id); seen_posts = set()
InitLastId(p) ==
    /\ pc[p] = "init_id"
    /\ IF next_id_raises(last_id[p])
       THEN /\ pc' = [pc EXCEPT ![p] = "value_error"]
            /\ UNCHANGED << last_id, seen_posts, start_rows >>
       ELSE /\ pc' = [pc EXCEPT ![p] = "wait"]
            /\ last_id' = [last_id EXCEPT ![p] = next_id(last_id[p])]
            /\ seen_posts' = [seen_posts EXCEPT ![p] = {}]
            /\ start_rows' = [start_rows EXCEPT ![p] = Len(table[p])]
    /\ UNCHANGED << CONFIG_FILE, ODS_FILE, table, post, delivered, last, ret,
                    issued >>

\* the bounds in force: the smaller ones when two processes run
Concurrent == \A q \in Procs : pc[q] # "absent"

EventBound == IF Concurrent THEN MaxConcurrentEvents ELSE MaxEvents

RowBound == IF Concurrent THEN MaxConcurrentRows ELSE MaxRows

\* for post in ...stream.submissions(): the stream yields a post
NextPost(p) ==
    /\ pc[p] = "wait"
    /\ Len(delivered[p]) < EventBound
    /\ Len(table[p]) < RowBound
    /\ \E e \in Posts :
          /\ post' = [post EXCEPT ![p] = e]
          /\ delivered' = [delivered EXCEPT ![p] = Append(delivered[p], e)]
    /\ pc' = [pc EXCEPT ![p] = "check"]
    /\ UNCHANGED << CONFIG_FILE, ODS_FILE, table, last_id, seen_posts,
                    start_rows, last, ret, issued >>

\* if post.id in seen_posts: continue; seen_posts.add(post.id)
CheckSeen_never_adds(p) ==
    /\ pc[p] = "check"
    /\ pc' = [pc EXCEPT ![p] = IF post[p].id \in seen_posts[p] THEN "wait" ELSE "build"]
    /\ UNCHANGED << seen_posts, CONFIG_FILE, ODS_FILE, table, last_id, post,
                    delivered, start_rows, last, ret, issued >>

CheckSeen(p) ==
    /\ pc[p] = "check"
    /\ IF post[p].id \in seen_posts[p]
       THEN /\ pc' = [pc EXCEPT ![p] = "wait"]
            /\ UNCHANGED seen_posts
       ELSE /\ seen_posts' = [seen_posts EXCEPT ![p] = @ \cup {post[p].id}]
            /\ pc' = [pc EXCEPT ![p] = "build"]
    /\ UNCHANGED << CONFIG_FILE, ODS_FILE, table, last_id, post, delivered,
                    start_rows, last, ret, issued >>

\* build the four cells and table.addElement(row)
BuildRow(p) ==
    /\ pc[p] = "build"
    /\ table' = [table EXCEPT ![p] = Append(@, new_row(last_id[p], post[p]))]
    /\ pc' = [pc EXCEPT ![p] = "save"]
    /\ UNCHANGED << CONFIG_FILE, ODS_FILE, last_id, seen_posts, post,
                    delivered, start_rows, last, ret, issued >>

SaveDocument_appends_row(p) ==
    /\ pc[p] = "save"
    /\ ODS_FILE' = IF ODS_FILE = <<>> THEN << table[p] >>
                   ELSE << Append(ODS_FILE[1], table[p][Len(table[p])]) >>
    /\ pc' = [pc EXCEPT ![p] = "advance"]
    /\ UNCHANGED << CONFIG_FILE, table, last_id, seen_posts, post, delivered,
                    start_rows, last, ret, issued >>

\* doc.save(ODS_FILE) succeeds: the file now holds the whole document
SaveDocument(p) ==
    /\ pc[p] = "save"
    /\ ODS_FILE' = << table[p] >>
    /\ pc' = [pc EXCEPT ![p] = "advance"]
    /\ UNCHANGED << CONFIG_FILE, table, last_id, seen_posts, post, delivered,
                    start_rows, last, ret, issued >>

\* doc.save(ODS_FILE) raises: nothing but KeyboardInterrupt is caught, so
\* the process ends.  The failed save is taken to leave the file as it was.
SaveFails_swallowed(p) ==
    /\ pc[p] = "save"
    /\ pc' = [pc EXCEPT ![p] = "advance"]
    /\ UNCHANGED << CONFIG_FILE, ODS_FILE, table, last_id, seen_posts, post,
                    delivered, start_rows, last, ret, issued >>

SaveFails(p) ==
    /\ pc[p] = "save"
    /\ pc' = [pc EXCEPT ![p] = "save_failed"]
    /\ UNCHANGED << CONFIG_FILE, ODS_FILE, table, last_id, seen_posts, post,
                    delivered, start_rows, last, ret, issued >>

AdvanceId_skipped(p) ==
    /\ pc[p] = "advance"
    /\ pc' = [pc EXCEPT ![p] = "wait"]
    /\ UNCHANGED << CONFIG_FILE, ODS_FILE, table, last_id, seen_posts, post,
                    delivered, start_rows, last, ret, issued >>

\* print(...); last_id = next_id(last_id)
AdvanceId(p) ==
    /\ pc[p] = "advance"
    /\ last_id' = [last_id EXCEPT ![p] = next_id(last_id[p])]
    /\ pc' = [pc EXCEPT ![p] = "wait"]
    /\ UNCHANGED << CONFIG_FILE, ODS_FILE, table, seen_posts, post, delivered,
                    start_rows, last, ret, issued >>

\* KeyboardInterrupt: caught around the loop, uncaught before it; the
\* process ends either way
Interrupt(p) ==
    /\ pc[p] \in Running
    /\ pc' = [pc EXCEPT ![p] = "stopped"]
    /\ UNCHANGED << CONFIG_FILE, ODS_FILE, table, last_id, seen_posts, post,
                    delivered, start_rows, last, ret, issued >>

\* the script is run again: nothing in memory survives
Restart(p) ==
    /\ pc[p] \in Ended
    /\ pc' = [pc EXCEPT ![p] = "config"]
    /\ table' = [table EXCEPT ![p] = <<>>]
    /\ last_id' = [last_id EXCEPT ![p] = None]
    /\ seen_posts' = [seen_posts EXCEPT ![p] = {}]
    /\ post' = [post EXCEPT ![p] = NoPost]
    /\ delivered' = [delivered EXCEPT ![p] = <<>>]
    /\ start_rows' = [start_rows EXCEPT ![p] = 0]
    /\ UNCHANGED << CONFIG_FILE, ODS_FILE, last, ret, issued >>

Next ==
    \E p \in Procs :
        \/ CheckConfig(p)
        \/ OpenDocument(p)
        \/ InitLastId(p)
        \/ NextPost(p)
        \/ CheckSeen(p)
        \/ BuildRow(p)
        \/ SaveDocument(p)
        \/ SaveFails(p)
        \/ AdvanceId(p)
        \/ Interrupt(p)
        \/ Restart(p)

\* memory of the processes before the script starts
InitMemory ==
    /\ table = [p \in Procs |-> <<>>]
    /\ last_id = [p \in Procs |-> None]
    /\ seen_posts = [p \in Procs |-> {}]
    /\ post = [p \in Procs |-> NoPost]
    /\ delivered = [p \in Procs |-> <<>>]
    /\ start_rows = [p \in Procs |-> 0]

\* no direct call of next_id is under way
NoCall ==
    /\ last = None
    /\ ret = None
    /\ issued = <<>>

\* a single writer, no backing file
Init ==
    /\ CONFIG_FILE \in BOOLEAN
    /\ ODS_FILE = <<>>
    /\ pc = [p \in Procs |-> IF p = 1 THEN "config" ELSE "absent"]
    /\ InitMemory
    /\ NoCall

Spec == Init /\ [][Next]_vars

---------------------------------------------------------------------------
(* A single writer started against a backing file left by anything: no    *)
(* file, a well-formed document, or a structurally damaged one.           *)

ResumeLabels ==
    { << "A", "0", "0", "1" >>, << "A", "0", "0", "2" >>,
      << "A", "9", "9", "8" >>, << "A", "9", "9", "9" >>,
      << "Z", "9", "9", "9" >>, << "A", "Z", "9", "9", "9" >>,
      << "Z", "Z", "9", "9", "9" >>, << "9", "9", "9" >>,
      << "0", "0", "1" >>,
      << "A", "0", "0", "0" >>, << "a", "0", "0", "1" >>,
      << "A", "0", "1" >>, << "A", "B", "C", "D" >> }

ResumePost == [id |-> << "k", "3" >>, subreddit |-> << "c" >>, title |-> << "T", "3" >>]

InitialTables ==
    { <<>>,                                   \* a table without rows
      << HeaderRow >>,                        \* the header row only
      << HeaderRow, <<>> >>,                  \* last row without cells
      << HeaderRow, << <<>> >> >>,            \* first cell without paragraph
      << HeaderRow, << << <<>> >> >> >>,      \* paragraph without text node
      << HeaderRow,
         new_row(<< "A", "0", "0", "1" >>, ResumePost),
         new_row(<< "A", "0", "0", "2" >>, ResumePost) >> }
    \cup { << HeaderRow, new_row(l, ResumePost) >> : l \in ResumeLabels }

InitResume ==
    /\ CONFIG_FILE \in BOOLEAN
    /\ ODS_FILE \in {<<>>} \cup { << t >> : t \in InitialTables }
    /\ pc = [p \in Procs |-> IF p = 1 THEN "config" ELSE "absent"]
    /\ InitMemory
    /\ NoCall

SpecResume == InitResume /\ [][Next]_vars

---------------------------------------------------------------------------
(* Two processes run the script against the same backing file *)

InitConcurrent ==
    /\ CONFIG_FILE \in BOOLEAN
    /\ ODS_FILE = <<>>
    /\ pc = [p \in Procs |-> "config"]
    /\ InitMemory
    /\ NoCall

SpecConcurrent == InitConcurrent /\ [][Next]_vars

---------------------------------------------------------------------------
(* next_id called directly on one input *)

InputLetters == {"A", "B", "Y", "Z", "a"}

InputPrefixes == UNION { [1..n -> InputLetters] : n \in 0..MaxPrefixLen }

InputSuffixes ==
    { << "0", "0", "1" >>, << "0", "0", "2" >>, << "0", "0", "9" >>,
      << "0", "1", "0" >>, << "0", "9", "9" >>, << "1", "0", "0" >>,
      << "4", "9", "9" >>, << "9", "9", "8" >>, << "9", "9", "9" >>,
      << "0", "0", "0" >>, << "0", "1" >>, << "-", "0", "1" >>,
      << "1", "_", "2" >>, << "0", "x", "1" >> }

NextIdInputs ==
    {None, <<>>} \cup { pre \o suf : pre \in InputPrefixes, suf \in InputSuffixes }

CallNextId ==
    /\ pc[1] = "call"
    /\ ret' = IF next_id_raises(last) THEN Raised ELSE next_id(last)
    /\ pc' = [pc EXCEPT ![1] = "returned"]
    /\ UNCHANGED << CONFIG_FILE, ODS_FILE, table, last_id, seen_posts, post,
                    delivered, start_rows, last, issued >>

InitNextId ==
    /\ CONFIG_FILE = TRUE
    /\ ODS_FILE = <<>>
    /\ pc = [p \in Procs |-> IF p = 1 THEN "call" ELSE "absent"]
    /\ InitMemory
    /\ last \in NextIdInputs
    /\ ret = None
    /\ issued = <<>>

NextNextId == CallNextId

SpecNextId == InitNextId /\ [][NextNextId]_vars

---------------------------------------------------------------------------
(* next_id applied again and again, starting from None; the chain is also *)
(* picked up shortly before each kind of carry, at labels it passes       *)
(* through later than MaxChain calls.                                     *)

ChainStarts ==
    { None,
      << "Z", "9", "9", "0" >>,
      << "A", "Z", "9", "9", "0" >>,
      << "Z", "Z", "9", "9", "0" >> }

ChainNextId ==
    /\ pc[1] = "chain"
    /\ Len(issued) < MaxChain
    /\ ~next_id_raises(last)
    /\ last' = next_id(last)
    /\ ret' = next_id(last)
    /\ issued' = Append(issued, next_id(last))
    /\ UNCHANGED << CONFIG_FILE, ODS_FILE, pc, table, last_id, seen_posts,
                    post, delivered, start_rows >>

InitChain ==
    /\ CONFIG_FILE = TRUE
    /\ ODS_FILE = <<>>
    /\ pc = [p \in Procs |-> IF p = 1 THEN "chain" ELSE "absent"]
    /\ InitMemory
    /\ last \in ChainStarts
    /\ ret = None
    /\ issued = <<>>

NextChain == ChainNextId

SpecChain == InitChain /\ [][NextChain]_vars

---------------------------------------------------------------------------
(* Vocabulary of the properties *)

Alphabet ==
    << "A", "B", "C", "D", "E", "F", "G", "H", "I", "J", "K", "L", "M",
       "N", "O", "P", "Q", "R", "S", "T", "U", "V", "W", "X", "Y", "Z" >>

UpperLetters == { Alphabet[i] : i \in 1..26 }

DecimalDigits == {"0", "1", "2", "3", "4", "5", "6", "7", "8", "9"}

LetterValue(c) == CHOOSE i \in 1..26 : Alphabet[i] = c

DigitOf(c) ==
    CASE c = "0" -> 0 [] c = "1" -> 1 [] c = "2" -> 2 [] c = "3" -> 3
      [] c = "4" -> 4 [] c = "5" -> 5 [] c = "6" -> 6 [] c = "7" -> 7
      [] c = "8" -> 8 [] c = "9" -> 9

LabelPrefix(s) == SubSeq(s, 1, Len(s) - 3)

LabelNumber(s) ==
    100 * DigitOf(s[Len(s) - 2]) + 10 * DigitOf(s[Len(s) - 1]) + DigitOf(s[Len(s)])

\* letters A-Z (possibly none) followed by exactly three digits, 001..999
WellFormedLabel(s) ==
    /\ Len(s) >= 3
    /\ \A i \in 1..Len(s) :
          IF i > Len(s) - 3 THEN s[i] \in DecimalDigits ELSE s[i] \in UpperLetters
    /\ LabelNumber(s) \in 1..999

\* the prefix read as a bijective base-26 numeral: "" = 0, A = 1, Z = 26, AA = 27
RECURSIVE PrefixValue(_)
PrefixValue(pre) ==
    IF pre = <<>> THEN 0
    ELSE 26 * PrefixValue(SubSeq(pre, 1, Len(pre) - 1)) + LetterValue(pre[Len(pre)])

LexLess(x, y) ==
    \E i \in 1..Len(x) :
        /\ LetterValue(x[i]) < LetterValue(y[i])
        /\ \A j \in 1..(i - 1) : x[j] = y[j]

\* prefix length first, then prefix lexicographic, then numeric suffix
LabelLess(a, b) ==
    \/ Len(LabelPrefix(a)) < Len(LabelPrefix(b))
    \/ /\ Len(LabelPrefix(a)) = Len(LabelPrefix(b))
       /\ \/ LexLess(LabelPrefix(a), LabelPrefix(b))
          \/ /\ LabelPrefix(a) = LabelPrefix(b)
             /\ LabelNumber(a) < LabelNumber(b)

\* the table has a data row last, and its first cell holds a well-formed label
HasLabelledLastRow(tbl) ==
    /\ Len(tbl) >= 2
    /\ Len(tbl[Len(tbl)]) >= 1
    /\ Len(tbl[Len(tbl)][1]) >= 1
    /\ WellFormedLabel(tbl[Len(tbl)][1][1])

LastRowLabel(tbl) == tbl[Len(tbl)][1][1]

\* text of cell c (counted from 1) of row i
CellText(tbl, i, c) == tbl[i][c][1]

InLoop == {"wait", "check", "build", "save", "advance"}

\* the label A00n, n < 10
Digits10 == << "0", "1", "2", "3", "4", "5", "6", "7", "8", "9" >>

LabelA(n) == << "A", "0", "0", Digits10[n + 1] >>

LabelA001 == << "A", "0", "0", "1" >>

---------------------------------------------------------------------------
(* C1 -- Idempotent resume.  When the document on disk ends in a data row  *)
(* with a well-formed label L, a process that has just finished startup    *)
(* holds the pending label next(L); and a process that has appended a row  *)
(* and kept running holds next(label of that row) as well, so stopping and *)
(* restarting changes nothing.                                             *)
IdempotentResume ==
    \A p \in Procs :
        pc[p] = "wait" =>
            /\ ( /\ delivered[p] = <<>>
                 /\ ODS_FILE # <<>>
                 /\ HasLabelledLastRow(ODS_FILE[1]) )
               => last_id[p] = next_id(LastRowLabel(ODS_FILE[1]))
            /\ ( /\ Len(table[p]) > start_rows[p]
                 /\ HasLabelledLastRow(table[p]) )
               => last_id[p] = next_id(LastRowLabel(table[p]))

\* a run resumed from ...ZZ999 appended AAA001 and stopped; the next run
\* has started up and holds AAA002
IdempotentResumeWitness ==
    /\ pc[1] = "wait"
    /\ delivered[1] = <<>>
    /\ ODS_FILE # <<>>
    /\ Len(ODS_FILE[1]) = 3
    /\ HasLabelledLastRow(SubSeq(ODS_FILE[1], 1, 2))
    /\ CellText(ODS_FILE[1], 2, 1) = << "Z", "Z", "9", "9", "9" >>
    /\ CellText(ODS_FILE[1], 3, 1) = << "A", "A", "A", "0", "0", "1" >>
    /\ last_id[1] = << "A", "A", "A", "0", "0", "2" >>

---------------------------------------------------------------------------
(* C2 -- Crash safety on persistence failure.  With a single writer that   *)
(* started without a file: while the loop is before the save, and after a  *)
(* save has failed, the pending label is next(label of the last row on     *)
(* disk) (A001 when there is no file): a failed save consumes no label.    *)
(* A process that goes on to wait for the next post after appending has    *)
(* all its rows on disk.                                                   *)
PendingFromDisk ==
    IF ODS_FILE = <<>> THEN LabelA001 ELSE next_id(LastRowLabel(ODS_FILE[1]))

CrashSafety ==
    \A p \in Procs :
        /\ pc[p] \in {"wait", "check", "build", "save", "save_failed"}
              => last_id[p] = PendingFromDisk
        /\ (pc[p] \in {"wait", "check", "build"} /\ Len(table[p]) > start_rows[p])
              => ODS_FILE = << table[p] >>

\* the first post of the run was saved as A001, the save of the second failed
CrashSafetyWitness ==
    /\ pc[1] = "save_failed"
    /\ start_rows[1] = 1
    /\ Len(table[1]) = 3
    /\ ODS_FILE # <<>>
    /\ Len(ODS_FILE[1]) = 2
    /\ CellText(ODS_FILE[1], 2, 1) = LabelA001
    /\ last_id[1] = << "A", "0", "0", "2" >>

---------------------------------------------------------------------------
(* C3 -- Document invariant.  With a single writer that started without a  *)
(* file, the file on disk always has the header as its first row, every    *)
(* later row starts with a well-formed label, and the labels strictly      *)
(* increase from top to bottom.                                            *)
DocumentInvariant ==
    ODS_FILE # <<>> =>
        LET t == ODS_FILE[1] IN
        /\ Len(t) >= 1
        /\ t[1] = HeaderRow
        /\ \A i \in 2..Len(t) : Len(t[i]) = 4 /\ WellFormedLabel(CellText(t, i, 1))
        /\ \A i \in 2..Len(t) : \A j \in (i + 1)..Len(t) :
              LabelLess(CellText(t, i, 1), CellText(t, j, 1))

\* a later run loaded rows of an earlier one and appended to them
DocumentInvariantWitness ==
    /\ ODS_FILE # <<>>
    /\ Len(ODS_FILE[1]) = MaxRows
    /\ start_rows[1] = 2
    /\ pc[1] = "stopped"

---------------------------------------------------------------------------
(* C4 -- Cancellation atomicity, as claimed: whenever the loop can be      *)
(* interrupted, every key in seen_posts has its row in the file on disk.   *)
OnDisk(k) ==
    /\ ODS_FILE # <<>>
    /\ \E i \in 2..Len(ODS_FILE[1]) : CellText(ODS_FILE[1], i, 4) = permalink(k)

CancellationAtomicity ==
    \A p \in Procs :
        pc[p] \in InLoop => \A k \in seen_posts[p] : OnDisk(k)

---------------------------------------------------------------------------
(* C5 -- Empty-document resume, as claimed: a process whose document is    *)
(* the header row alone, whether created or loaded, does not fail at       *)
(* startup and waits for the first post with the pending label A001.       *)
EmptyDocumentResume ==
    \A p \in Procs :
        table[p] = << HeaderRow >> =>
            /\ pc[p] # "value_error"
            /\ pc[p] = "wait" => last_id[p] = LabelA001

---------------------------------------------------------------------------
(* C6 -- De-duplication within a run.  With a single writer that started   *)
(* without a file: whenever the loop waits for the next post, each key     *)
(* delivered in this run, however often, has exactly one row among the     *)
(* rows appended in this run, every other key none, and the pending label  *)
(* has advanced once per row of the table and not once per delivery.       *)
AppendedRowsFor(p, k) ==
    { i \in (start_rows[p] + 1)..Len(table[p]) :
          CellText(table[p], i, 4) = permalink(k) }

WasDelivered(p, k) == \E i \in 1..Len(delivered[p]) : delivered[p][i].id = k

DeDuplication ==
    \A p \in Procs :
        pc[p] = "wait" =>
            /\ \A e \in Posts :
                  Cardinality(AppendedRowsFor(p, e.id))
                      = IF WasDelivered(p, e.id) THEN 1 ELSE 0
            /\ Len(table[p]) - start_rows[p] = Cardinality(seen_posts[p])
            /\ last_id[p] = LabelA(Len(table[p]))

\* the same post was delivered three times and has one row
DeDuplicationWitness ==
    /\ pc[1] = "wait"
    /\ Len(delivered[1]) = 3
    /\ delivered[1][1] = delivered[1][2]
    /\ delivered[1][2] = delivered[1][3]
    /\ Len(table[1]) = start_rows[1] + 1

---------------------------------------------------------------------------
(* C7 -- End-to-end append order.  A run that started without a file and   *)
(* has been fed n posts with distinct keys holds, and has on disk, the     *)
(* header followed by n rows in delivery order, the i-th being             *)
(* (A00i, community, title, https://redd.it/key) of the i-th post.         *)
ExpectedRow(i, e) ==
    << << LabelA(i) >>,
       << e.subreddit >>,
       << e.title >>,
       << << "h", "t", "t", "p", "s", ":", "/", "/",
             "r", "e", "d", "d", ".", "i", "t", "/" >> \o e.id >> >>

DistinctKeys(d) ==
    \A i \in 1..Len(d) : \A j \in 1..Len(d) : d[i].id = d[j].id => i = j

EndToEndOrder ==
    \A p \in Procs :
        (pc[p] = "wait" /\ start_rows[p] = 1 /\ DistinctKeys(delivered[p])) =>
            /\ Len(table[p]) = Len(delivered[p]) + 1
            /\ table[p][1] = HeaderRow
            /\ \A i \in 1..Len(delivered[p]) :
                  table[p][i + 1] = ExpectedRow(i, delivered[p][i])
            /\ Len(delivered[p]) > 0 => ODS_FILE = << table[p] >>

\* the three posts k1, k2, k3 of communities a, b, c were fed in this order
EndToEndOrderWitness ==
    /\ pc[1] = "wait"
    /\ start_rows[1] = 1
    /\ Len(delivered[1]) = 3
    /\ delivered[1][1].id = << "k", "1" >>
    /\ delivered[1][2].id = << "k", "2" >>
    /\ delivered[1][3].id = << "k", "3" >>
    /\ ODS_FILE # <<>>
    /\ Len(ODS_FILE[1]) = 4
    /\ CellText(ODS_FILE[1], 4, 1) = << "A", "0", "0", "3" >>
    /\ CellText(ODS_FILE[1], 4, 2) = << "c" >>

---------------------------------------------------------------------------
(* C8 -- Monotonicity.  In a chain of next_id calls starting from None,    *)
(* every label produced is well formed and strictly greater, in the order  *)
(* (prefix length, prefix, number), than every label produced before it.   *)
Monotonicity ==
    pc[1] = "chain" =>
        \A i \in 1..Len(issued) :
            /\ WellFormedLabel(issued[i])
            /\ i < Len(issued) => LabelLess(issued[i], issued[Len(issued)])

\* the chain has passed the first rollover, A999 -> B001
MonotonicityWitness ==
    /\ pc[1] = "chain"
    /\ Len(issued) = 1000
    /\ issued[1] = LabelA001
    /\ issued[999] = << "A", "9", "9", "9" >>
    /\ issued[1000] = << "B", "0", "0", "1" >>

---------------------------------------------------------------------------
(* C9 -- Rollover with carry.  For a well-formed label with number 999,    *)
(* next_id returns the number 001 behind a prefix of letters A-Z that is   *)
(* the successor of the old prefix as a bijective base-26 numeral (empty   *)
(* prefix -> A, Z -> AA, AZ -> BA, ZZ -> AAA).                             *)
RolloverWithCarry ==
    (pc[1] = "returned" /\ WellFormedLabel(last) /\ LabelNumber(last) = 999) =>
        /\ ret # Raised
        /\ Len(ret) >= 4
        /\ SubSeq(ret, Len(ret) - 2, Len(ret)) = << "0", "0", "1" >>
        /\ \A i \in 1..(Len(ret) - 3) : ret[i] \in UpperLetters
        /\ PrefixValue(LabelPrefix(ret)) = PrefixValue(LabelPrefix(last)) + 1
        /\ last = << "A", "9", "9", "9" >> => ret = << "B", "0", "0", "1" >>
        /\ last = << "Z", "9", "9", "9" >> => ret = << "A", "A", "0", "0", "1" >>
        /\ last = << "A", "Z", "9", "9", "9" >> => ret = << "B", "A", "0", "0", "1" >>
        /\ last = << "Z", "Z", "9", "9", "9" >>
              => ret = << "A", "A", "A", "0", "0", "1" >>

\* the carry ran past the leftmost letter
RolloverWithCarryWitness ==
    /\ pc[1] = "returned"
    /\ last = << "Z", "Z", "9", "9", "9" >>
    /\ ret = << "A", "A", "A", "0", "0", "1" >>

---------------------------------------------------------------------------
(* C10 -- Non-rollover step.  For a well-formed label with a number below  *)
(* 999, next_id returns the same prefix followed by exactly three digits   *)
(* whose value is the old number plus one.                                 *)
NonRolloverStep ==
    (pc[1] = "returned" /\ WellFormedLabel(last) /\ LabelNumber(last) < 999) =>
        /\ ret # Raised
        /\ Len(ret) = Len(last)
        /\ LabelPrefix(ret) = LabelPrefix(last)
        /\ \A i \in (Len(ret) - 2)..Len(ret) : ret[i] \in DecimalDigits
        /\ LabelNumber(ret) = LabelNumber(last) + 1

\* the padding is needed: 009 -> 010 behind a two-letter prefix
NonRolloverStepWitness ==
    /\ pc[1] = "returned"
    /\ last = << "A", "Z", "0", "0", "9" >>
    /\ ret = << "A", "Z", "0", "1", "0" >>

---------------------------------------------------------------------------
(* C11 -- First label.  A run that created its document (no file, so no    *)
(* recovered state) enters the loop with the pending label A001, and the   *)
(* first row it appends carries A001, not 001.                             *)
FirstLabel ==
    \A p \in Procs :
        (pc[p] \in InLoop /\ start_rows[p] = 1 /\ table[p][1] = HeaderRow) =>
            /\ Len(table[p]) = 1 => last_id[p] = << "A", "0", "0", "1" >>
            /\ Len(table[p]) >= 2 =>
                  /\ CellText(table[p], 2, 1) = << "A", "0", "0", "1" >>
                  /\ CellText(table[p], 2, 1) # << "0", "0", "1" >>

\* the first row of a fresh run has been saved
FirstLabelWitness ==
    /\ pc[1] = "advance"
    /\ start_rows[1] = 1
    /\ Len(table[1]) = 2
    /\ ODS_FILE = << table[1] >>
    /\ CellText(table[1], 2, 1) = << "A", "0", "0", "1" >>

---------------------------------------------------------------------------
(* C12 -- Malformed-label rejection, as claimed: called on a text that is  *)
(* not a well-formed label, next_id raises instead of returning a value.   *)
MalformedLabelRejection ==
    (pc[1] = "returned" /\ last # None /\ ~WellFormedLabel(last)) => ret = Raised

---------------------------------------------------------------------------
(* C13 -- Recoverable startup.  When the loaded table has no rows, or its  *)
(* last row has no cells, or the first cell of that row has no paragraph   *)
(* or no text node, the recovered last_id is None, startup does not fail,  *)
(* and the loop is entered with the pending label A001.                    *)
NoLabelToRead(tbl) ==
    \/ Len(tbl) = 0
    \/ Len(tbl[Len(tbl)]) = 0
    \/ Len(tbl[Len(tbl)][1]) = 0
    \/ tbl[Len(tbl)][1][1] = <<>>

RecoverableStartup ==
    \A p \in Procs :
        (ODS_FILE # <<>> /\ table[p] = ODS_FILE[1] /\ NoLabelToRead(table[p])) =>
            /\ pc[p] # "value_error"
            /\ pc[p] = "init_id" => last_id[p] = None
            /\ pc[p] = "wait" => last_id[p] = << "A", "0", "0", "1" >>

\* the file's last row has a first cell without text; the loop was entered
RecoverableStartupWitness ==
    /\ pc[1] = "wait"
    /\ ODS_FILE = << << HeaderRow, << << <<>> >> >> >> >>
    /\ table[1] = ODS_FILE[1]
    /\ last_id[1] = << "A", "0", "0", "1" >>

---------------------------------------------------------------------------
(* C14 -- Missing credentials halt startup.  When reddit_config.json is    *)
(* absent, no process gets past the configuration check: no document is    *)
(* created or loaded in memory, the stream yields nothing, and no file is  *)
(* written.                                                                *)
MissingCredentialsHalt ==
    ~CONFIG_FILE =>
        /\ ODS_FILE = <<>>
        /\ \A p \in Procs :
              /\ pc[p] \in {"config", "exited", "stopped", "absent"}
              /\ table[p] = <<>>
              /\ last_id[p] = None
              /\ delivered[p] = <<>>
              /\ seen_posts[p] = {}

\* the script has exited at the configuration check
MissingCredentialsHaltWitness ==
    /\ ~CONFIG_FILE
    /\ pc[1] = "exited"
    /\ ODS_FILE = <<>>

---------------------------------------------------------------------------
(* C15 -- Concurrent writers race.  When two processes have started from   *)
(* the same document and each has saved a row in its current run, both     *)
(* gave their first row the same label, and the file holds the document of *)
(* one of them alone: each save rewrites the whole file, so a row that     *)
(* only the other process saved is gone from disk.                         *)
SavedInRun(p) ==
    /\ pc[p] \in {"wait", "check", "build", "advance"}
    /\ Len(table[p]) > start_rows[p]

SameLoad(p, q) ==
    /\ start_rows[p] = start_rows[q]
    /\ SubSeq(table[p], 1, start_rows[p]) = SubSeq(table[q], 1, start_rows[q])

RowOnDisk(r) ==
    /\ ODS_FILE # <<>>
    /\ \E i \in 1..Len(ODS_FILE[1]) : ODS_FILE[1][i] = r

ConcurrentWritersRace ==
    \A p \in Procs : \A q \in Procs \ {p} :
        (SavedInRun(p) /\ SavedInRun(q) /\ SameLoad(p, q)) =>
            /\ CellText(table[p], start_rows[p] + 1, 1)
                  = CellText(table[q], start_rows[q] + 1, 1)
            /\ ODS_FILE \in { << table[p] >>, << table[q] >> }
            /\ table[p][start_rows[p] + 1] # table[q][start_rows[q] + 1]
                  => \/ ~RowOnDisk(table[p][start_rows[p] + 1])
                     \/ ~RowOnDisk(table[q][start_rows[q] + 1])

\* both processes saved a row labelled A001 for different posts; the row
\* process 1 saved has been overwritten by the save of process 2
ConcurrentWritersRaceWitness ==
    /\ SavedInRun(1)
    /\ SavedInRun(2)
    /\ SameLoad(1, 2)
    /\ start_rows[1] = 1
    /\ CellText(table[1], 2, 1) = << "A", "0", "0", "1" >>
    /\ CellText(table[2], 2, 1) = << "A", "0", "0", "1" >>
    /\ table[1][2] # table[2][2]
    /\ ODS_FILE = << table[2] >>
    /\ ~RowOnDisk(table[1][2])

---------------------------------------------------------------------------
(* C16 -- SeenSet is process-lifetime only.  Whenever the loop waits,      *)
(* seen_posts holds exactly the keys delivered in this run (so it is empty *)
(* when the run starts, whatever the document holds), and each of them has *)
(* a row appended in this run under a label no earlier row carries, even   *)
(* when an earlier run already logged the same key.                        *)
DeliveredKeys(p) == { delivered[p][i].id : i \in 1..Len(delivered[p]) }

SeenSetProcessLifetime ==
    \A p \in Procs :
        pc[p] = "wait" =>
            /\ seen_posts[p] = DeliveredKeys(p)
            /\ \A k \in DeliveredKeys(p) :
                  \E j \in (start_rows[p] + 1)..Len(table[p]) :
                      /\ CellText(table[p], j, 4) = permalink(k)
                      /\ \A m \in 2..(j - 1) :
                            CellText(table[p], m, 1) # CellText(table[p], j, 1)

\* a key logged as A001 by an earlier run was delivered again after the
\* restart and logged again as A002
SeenSetProcessLifetimeWitness ==
    /\ pc[1] = "wait"
    /\ start_rows[1] = 2
    /\ Len(table[1]) = 3
    /\ ODS_FILE = << table[1] >>
    /\ CellText(table[1], 2, 4) = CellText(table[1], 3, 4)
    /\ CellText(table[1], 2, 1) = << "A", "0", "0", "1" >>
    /\ CellText(table[1], 3, 1) = << "A", "0", "0", "2" >>

---------------------------------------------------------------------------
(* C17 -- The new document is not written at startup.  With a single       *)
(* writer that started without a file, the file is either absent or holds  *)
(* the header and at least one data row; and as long as a process holds a  *)
(* document it created and has not completed a save, there is no file.     *)
NoFileBeforeFirstAppend ==
    /\ ODS_FILE # <<>> =>
          (Len(ODS_FILE[1]) >= 2 /\ ODS_FILE[1][1] = HeaderRow)
    /\ \A p \in Procs :
          /\ (pc[p] \in {"init_id", "wait", "check", "build"}
                /\ table[p] = << HeaderRow >>) => ODS_FILE = <<>>
          /\ (pc[p] = "save" /\ start_rows[p] = 1 /\ Len(table[p]) = 2)
                => ODS_FILE = <<>>

\* the first save of a run that created its document has just put the
\* file on disk
NoFileBeforeFirstAppendWitness ==
    /\ pc[1] = "advance"
    /\ start_rows[1] = 1
    /\ Len(table[1]) = 2
    /\ table[1][1] = HeaderRow
    /\ ODS_FILE = << table[1] >>
    /\ delivered[1] # <<>>

---------------------------------------------------------------------------
(* C18 -- Pending label while waiting.  Whenever the loop waits for the    *)
(* next post, whatever file the run started from: the pending label is     *)
(* next_id of the text in the first cell of the last data row of the       *)
(* in-memory table, or A001 when the table has no data row; and once the   *)
(* run has appended a row, the file holds exactly the in-memory table.     *)
HasLastDataRowText(tbl) ==
    /\ Len(tbl) >= 1
    /\ tbl[Len(tbl)] # HeaderRow
    /\ Len(tbl[Len(tbl)]) >= 1
    /\ Len(tbl[Len(tbl)][1]) >= 1
    /\ tbl[Len(tbl)][1][1] # <<>>

PendingLabelWhileWaiting ==
    \A p \in Procs :
        pc[p] = "wait" =>
            /\ HasLastDataRowText(table[p])
                  => last_id[p] = next_id(table[p][Len(table[p])][1][1])
            /\ table[p] \in { <<>>, << HeaderRow >> }
                  => last_id[p] = << "A", "0", "0", "1" >>
            /\ Len(table[p]) > start_rows[p] => ODS_FILE = << table[p] >>

\* a run resumed from ...A999 has appended B001 and B002 and waits with B003
PendingLabelWhileWaitingWitness ==
    /\ pc[1] = "wait"
    /\ start_rows[1] = 2
    /\ Len(table[1]) = 4
    /\ ODS_FILE = << table[1] >>
    /\ Len(table[1][2]) = 4
    /\ Len(table[1][2][1]) = 1
    /\ CellText(table[1], 2, 1) = << "A", "9", "9", "9" >>
    /\ CellText(table[1], 4, 1) = << "B", "0", "0", "2" >>
    /\ last_id[1] = << "B", "0", "0", "3" >>

---------------------------------------------------------------------------
(* C19 -- Closure of next_id.  Called on None or on a well-formed label    *)
(* with at least one prefix letter, next_id returns a well-formed label    *)
(* (letters A-Z, number 001..999) with at least one prefix letter, at most *)
(* one letter longer than its input, and the carry loop runs its body at   *)
(* most once per letter of the prefix.                                     *)
NextIdClosure ==
    (pc[1] = "returned" /\ (last = None \/ (WellFormedLabel(last) /\ Len(last) >= 4))) =>
        /\ ret # Raised
        /\ WellFormedLabel(ret)
        /\ Len(ret) >= 4
        /\ LabelNumber(ret) # 0
        /\ last # None =>
              /\ Len(ret) \in {Len(last), Len(last) + 1}
              /\ carry_loop_steps(LabelPrefix(last), Len(LabelPrefix(last)))
                    <= Len(LabelPrefix(last))

\* the prefix grew by one letter
NextIdClosureWitness ==
    /\ pc[1] = "returned"
    /\ last = << "Z", "9", "9", "9" >>
    /\ ret = << "A", "A", "0", "0", "1" >>
    /\ carry_loop_steps(<< "Z" >>, 1) = 1

====
